---- MODULE Spec2Model ----
(***************************************************************************)
(* Extension layer of the sweetroll terminal editor: selection, clipboard, *)
(* selection-aware deletion and the tab multiplexer, as handlers hooked    *)
(* into the host's priority-ordered dispatcher and its blackboard.         *)
(*                                                                         *)
(* Text is a sequence of one-character strings, a buffer a sequence of     *)
(* lines, a position <<row, col>> (zero-indexed, as in the source).        *)
(***************************************************************************)
EXTENDS Integers, Sequences, FiniteSets, TLC

\* ------------------------------------------------------------------ bounds
MaxSteps == 7
PureLines == 2
PureLen == 2
MaxTabs == 3
MaxScroll == 1
MaxSeqLen == 5

\* ------------------------------------------------------- program constants
KEY_SLEFT == 393
KEY_SRIGHT == 402
KEY_SUP == 337
KEY_SDOWN == 336
KEY_BACKSPACE == 263
KEY_DEL == 127
KEY_BS == 8
KEY_COPY == 3
KEY_PASTE == 22
KEY_PREV_TAB == 11
KEY_NEXT_TAB == 12
KEY_NEW_TAB == 14
KEY_CHAR_A == 97
KEY_ESC == 27
\* chr() accepts 0 .. 0x10FFFF.
MAX_CODEPOINT == 1114111

_SHIFT_KEYS == {KEY_SLEFT, KEY_SRIGHT, KEY_SUP, KEY_SDOWN}
BACKSPACE_KEYS == {KEY_BACKSPACE, KEY_DEL, KEY_BS}
TAB_KEYS == {KEY_PREV_TAB, KEY_NEXT_TAB, KEY_NEW_TAB}

\* Python's None for an optional position, and for an optional path.
None == <<>>
NoPath == "none"
\* A file that does not exist (a buffer has at least one line).
NoFile == <<>>

NL == "\n"
Alphabet == {"a", "b"}

\* ----------------------------------------------------- Python text helpers
Min(a, b) == IF a < b THEN a ELSE b
Max(a, b) == IF a > b THEN a ELSE b

\* s[:n] and s[n:] for n >= 0, with Python's clamping of the slice bound.
Take(s, n) == SubSeq(s, 1, Min(n, Len(s)))
Drop(s, n) == SubSeq(s, Min(n, Len(s)) + 1, Len(s))
\* s[a:b]
Slice(s, a, b) == Take(Drop(s, a), Max(b - Min(a, Len(s)), 0))

\* "\n".join(parts)
RECURSIVE JoinNL(_)
JoinNL(parts) ==
    IF Len(parts) = 0 THEN <<>>
    ELSE IF Len(parts) = 1 THEN parts[1]
    ELSE parts[1] \o <<NL>> \o JoinNL(Tail(parts))

\* text.split("\n"): always at least one segment.
RECURSIVE SplitNL(_)
SplitNL(text) ==
    IF \A i \in 1..Len(text) : text[i] # NL THEN <<text>>
    ELSE LET k == CHOOSE i \in 1..Len(text) :
                      text[i] = NL /\ \A j \in 1..(i - 1) : text[j] # NL
         IN <<SubSeq(text, 1, k - 1)>> \o SplitNL(SubSeq(text, k + 1, Len(text)))

\* str.encode() / bytes.decode() over the characters of the model (UTF-8 of
\* an ASCII character is its code).
Ord(c) == CASE c = "a" -> 97 [] c = "b" -> 98 [] c = NL -> 10
            [] c = "h" -> 104 [] c = "e" -> 101 [] c = "l" -> 108
            [] c = "o" -> 111 [] c = "w" -> 119 [] c = "r" -> 114
            [] c = "d" -> 100 [] c = "x" -> 120
Chr(n) == CASE n = 97 -> "a" [] n = 98 -> "b" [] n = 10 -> NL
            [] n = 104 -> "h" [] n = 101 -> "e" [] n = 108 -> "l"
            [] n = 111 -> "o" [] n = 119 -> "w" [] n = 114 -> "r"
            [] n = 100 -> "d" [] n = 120 -> "x"
Encode(text) == [i \in 1..Len(text) |-> Ord(text[i])]
Decode(bytes) == [i \in 1..Len(bytes) |-> Chr(bytes[i])]

\* ------------------------------------------------------------------- state
VARIABLES
    lines, cursor, scroll_y, scroll_x, path, dirty,   \* host: the live buffer
    disk,             \* host: the file system, path -> lines or NoFile
    data,             \* host: the blackboard
    clipboard,        \* the system clipboard (bytes), reached through xclip
    _anchor,          \* selection.py: module-level _anchor
    tabs,             \* tabs.py: module-level tabs
    current_tab,      \* tabs.py: module-level current_tab
    pending,          \* terminal: the characters waiting behind the key read
    dispatched,       \* host: the last name given to api.dispatch_key
    inited,           \* host: the init event has been fired
    last,             \* dispatcher: the last event and what its handlers returned
    left,             \* history: the host's state when each tab was last left
    nav,              \* history: the current run of previous/next commands
    shift_run,        \* history: the current run of shift+arrow keys
    steps             \* the number of events so far

vars == <<lines, cursor, scroll_y, scroll_x, path, dirty, disk, data, clipboard,
          _anchor, tabs, current_tab, pending, dispatched, inited, last, left,
          nav, shift_run, steps>>

\* The state a handler sees and changes, as one record: the host's editor
\* state behind `api`, the blackboard, the clipboard and the extensions'
\* module-level variables.
Cur == [lines |-> lines, cursor |-> cursor, scroll_y |-> scroll_y,
        scroll_x |-> scroll_x, path |-> path, dirty |-> dirty, disk |-> disk,
        data |-> data, clipboard |-> clipboard, _anchor |-> _anchor,
        tabs |-> tabs, current_tab |-> current_tab,
        pending |-> pending, dispatched |-> dispatched]

\* ---------------------------------------------------- host API (boundary)
\* api.set_cursor(row, col)
set_cursor(s, row, col) == [s EXCEPT !.cursor = <<row, col>>]
\* api.replace_lines(new_lines, dirty=...): replaces the buffer and tags the
\* unsaved-changes flag.
replace_lines(s, new_lines, d) == [s EXCEPT !.lines = new_lines, !.dirty = d]
\* api.set_data(key, value)
set_data(s, key, value) == [s EXCEPT !.data[key] = value]
\* api.get_data(key)
get_data(s, key) == s.data[key]
\* api.load_file(path): replaces buffer and path, resets dirty.
load_file(s, p) == [s EXCEPT !.lines = s.disk[p], !.path = p, !.dirty = FALSE]
\* path.exists()
exists(s, p) == s.disk[p] # NoFile

\* --------------------------------------------------------- selection.py
\* anchor <= cursor on Python tuples: lexicographic.
TupleLeq(a, c) == a[1] < c[1] \/ (a[1] = c[1] /\ a[2] <= c[2])

_get_sorted_range_unsorted(anchor, cur) ==
    <<anchor[1], anchor[2], cur[1], cur[2]>>

_get_sorted_range(anchor, cur) ==
    IF TupleLeq(anchor, cur)
    THEN <<anchor[1], anchor[2], cur[1], cur[2]>>
    ELSE <<cur[1], cur[2], anchor[1], anchor[2]>>

\* The cursor move of a shift+arrow key (selection.py lines 46-61).
selection_move(s, key) ==
    LET row == s.cursor[1]
        col == s.cursor[2]
    IN  IF key = KEY_SLEFT
        THEN IF col > 0 THEN set_cursor(s, row, col - 1) ELSE s
        ELSE IF key = KEY_SRIGHT
        THEN IF col < Len(s.lines[row + 1]) THEN set_cursor(s, row, col + 1) ELSE s
        ELSE IF key = KEY_SUP
        THEN IF row > 0 THEN set_cursor(s, row - 1, col) ELSE s
        ELSE IF key = KEY_SDOWN
        THEN IF row < Len(s.lines) - 1 THEN set_cursor(s, row + 1, col) ELSE s
        ELSE s

selection_start_always(s) ==
    set_data([s EXCEPT !._anchor = s.cursor], "selection.anchor", s.cursor)

\* The start of a selection (selection.py lines 42-44).
selection_start(s) ==
    IF s._anchor = None
    THEN set_data([s EXCEPT !._anchor = s.cursor], "selection.anchor", s.cursor)
    ELSE s

selection_clear_unpublished(s) ==
    IF s._anchor # None THEN [s EXCEPT !._anchor = None] ELSE s

\* The clearing of the selection on any other key (selection.py lines 36-38).
selection_clear(s) ==
    IF s._anchor # None
    THEN set_data([s EXCEPT !._anchor = None], "selection.anchor", None)
    ELSE s

selection_on_key(s, key) ==
    IF key \notin _SHIFT_KEYS
    THEN [ret |-> FALSE, s |-> selection_clear(s)]
    ELSE [ret |-> TRUE, s |-> selection_move(selection_start(s), key)]

\* --------------------------------------------------- selection_delete.py
delete_lines_keep_last(lns, anchor, cur) ==
    LET r == _get_sorted_range(anchor, cur)
        joined_line == Take(lns[r[1] + 1], r[2]) \o Drop(lns[r[3] + 1], r[4])
    IN  Take(lns, r[1]) \o <<joined_line>> \o Drop(lns, r[3])

\* The buffer edit of a selection delete (selection_delete.py lines 39-52).
delete_lines(lns, anchor, cur) ==
    LET r == _get_sorted_range(anchor, cur)
        sr == r[1]
        sc == r[2]
        er == r[3]
        ec == r[4]
        joined_line == Take(lns[sr + 1], sc) \o Drop(lns[er + 1], ec)
    IN  Take(lns, sr) \o <<joined_line>> \o Drop(lns, er + 1)

\* What the handler does to the anchor after the edit (lines 54-55).
delete_clear(s) == set_data(s, "selection.anchor", None)

selection_delete_on_key_empty_range(s, key) ==
    IF key \notin BACKSPACE_KEYS THEN [ret |-> FALSE, s |-> s]
    ELSE LET anchor == get_data(s, "selection.anchor") IN
         IF anchor = None THEN [ret |-> FALSE, s |-> s]
         ELSE LET r == _get_sorted_range(anchor, s.cursor)
                  s1 == replace_lines(s, delete_lines(s.lines, anchor, s.cursor), TRUE)
                  s2 == set_cursor(s1, r[1], r[2])
              IN  [ret |-> TRUE, s |-> delete_clear(s2)]

selection_delete_on_key(s, key) ==
    IF key \notin BACKSPACE_KEYS THEN [ret |-> FALSE, s |-> s]
    ELSE LET anchor == get_data(s, "selection.anchor") IN
         IF anchor = None THEN [ret |-> FALSE, s |-> s]
         ELSE IF anchor = s.cursor THEN [ret |-> FALSE, s |-> s]
         ELSE LET r == _get_sorted_range(anchor, s.cursor)
                  s1 == replace_lines(s, delete_lines(s.lines, anchor, s.cursor), TRUE)
                  s2 == set_cursor(s1, r[1], r[2])
              IN  [ret |-> TRUE, s |-> delete_clear(s2)]

\* ------------------------------------------------------------ clipboard.py
_extract_selected_text_no_middle(lns, anchor, cur) ==
    LET r == _get_sorted_range(anchor, cur)
    IN  IF r[1] = r[3] THEN Slice(lns[r[1] + 1], r[2], r[4])
        ELSE JoinNL(<<Drop(lns[r[1] + 1], r[2]), Take(lns[r[3] + 1], r[4])>>)

_extract_selected_text(lns, anchor, cur) ==
    LET r == _get_sorted_range(anchor, cur)
        sr == r[1]
        sc == r[2]
        er == r[3]
        ec == r[4]
    IN  IF sr = er THEN Slice(lns[sr + 1], sc, ec)
        ELSE JoinNL(<<Drop(lns[sr + 1], sc)>>
                    \o [i \in 1..(er - sr - 1) |-> lns[sr + 1 + i]]
                    \o <<Take(lns[er + 1], ec)>>)

\* xclip -selection clipboard, fed text.encode()
_copy_to_clipboard(s, text) == [s EXCEPT !.clipboard = Encode(text)]
\* xclip -selection clipboard -o, stdout.decode()
_read_from_clipboard(s) == Decode(s.clipboard)

paste_lines_drop_after(lns, row, col, text) ==
    LET before == Take(lns[row + 1], col)
        pasted_lines == SplitNL(text)
    IN  Take(lns, row) \o <<before \o pasted_lines[1]>> \o Tail(pasted_lines)
        \o Drop(lns, row + 1)

\* The buffer edit of a paste (clipboard.py lines 82-107).
paste_lines(lns, row, col, text) ==
    LET current_line == lns[row + 1]
        before == Take(current_line, col)
        after == Drop(current_line, col)
        pasted_lines == SplitNL(text)
        new1 == Take(lns, row) \o <<before \o pasted_lines[1]>> \o Tail(pasted_lines)
        new2 == [new1 EXCEPT ![Len(new1)] = new1[Len(new1)] \o after]
    IN  new2 \o Drop(lns, row + 1)

\* The cursor after a paste (clipboard.py lines 111-116).
paste_cursor(row, col, text) ==
    LET pasted_lines == SplitNL(text)
        end_row == row + Len(pasted_lines) - 1
        end_col == Len(pasted_lines[Len(pasted_lines)])
    IN  IF Len(pasted_lines) = 1 THEN <<end_row, end_col + col>>
        ELSE <<end_row, end_col>>

clipboard_on_key(s, key) ==
    IF key = KEY_COPY
    THEN LET anchor == get_data(s, "selection.anchor") IN
         IF anchor = None THEN [ret |-> FALSE, s |-> s]
         ELSE IF anchor = s.cursor THEN [ret |-> FALSE, s |-> s]
         ELSE [ret |-> TRUE,
               s |-> _copy_to_clipboard(s, _extract_selected_text(s.lines, anchor, s.cursor))]
    ELSE IF key = KEY_PASTE
    THEN LET text == _read_from_clipboard(s) IN
         IF text = <<>> THEN [ret |-> TRUE, s |-> s]
         ELSE LET row == s.cursor[1]
                  col == s.cursor[2]
                  s1 == replace_lines(s, paste_lines(s.lines, row, col, text), TRUE)
                  c == paste_cursor(row, col, text)
              IN  [ret |-> TRUE, s |-> set_cursor(s1, c[1], c[2])]
    ELSE [ret |-> FALSE, s |-> s]

\* ----------------------------------------------------------------- tabs.py
\* api.set_path / set_scroll_y / set_scroll_x
set_path(s, p) == [s EXCEPT !.path = p]
set_scroll_y(s, y) == [s EXCEPT !.scroll_y = y]
set_scroll_x(s, x) == [s EXCEPT !.scroll_x = x]

make_tab(p, lns, cur, sy, sx, d) ==
    [path |-> p, lines |-> lns, cursor |-> cur, scroll_y |-> sy,
     scroll_x |-> sx, dirty |-> d]

\* make_tab() with every default.
make_tab_default == make_tab(NoPath, <<<<>>>>, <<0, 0>>, 0, 0, FALSE)

save_current_tab_no_scroll(s) ==
    IF s.current_tab >= Len(s.tabs) THEN s
    ELSE [s EXCEPT !.tabs[s.current_tab + 1] =
              make_tab(s.path, s.lines, s.cursor, s.scroll_y,
                       s.tabs[s.current_tab + 1].scroll_x, s.dirty)]

save_current_tab(s) ==
    IF s.current_tab >= Len(s.tabs) THEN s
    ELSE [s EXCEPT !.tabs[s.current_tab + 1] =
              make_tab(s.path, s.lines, s.cursor, s.scroll_y, s.scroll_x, s.dirty)]

switch_to_tab_no_exists(s, index) ==
    IF index < 0 \/ index >= Len(s.tabs) THEN s
    ELSE LET tab == s.tabs[index + 1]
             s0 == [s EXCEPT !.current_tab = index]
             s1 == IF tab.path # NoPath /\ ~tab.dirty
                   THEN load_file(s0, tab.path)
                   ELSE set_path(replace_lines(s0, tab.lines, tab.dirty), tab.path)
         IN  set_scroll_x(set_scroll_y(set_cursor(s1, tab.cursor[1], tab.cursor[2]),
                                       tab.scroll_y), tab.scroll_x)

switch_to_tab(s, index) ==
    IF index < 0 \/ index >= Len(s.tabs) THEN s
    ELSE LET tab == s.tabs[index + 1]
             s0 == [s EXCEPT !.current_tab = index]
             s1 == IF tab.path # NoPath /\ ~tab.dirty /\ exists(s0, tab.path)
                   THEN load_file(s0, tab.path)
                   ELSE set_path(replace_lines(s0, tab.lines, tab.dirty), tab.path)
         IN  set_scroll_x(set_scroll_y(set_cursor(s1, tab.cursor[1], tab.cursor[2]),
                                       tab.scroll_y), tab.scroll_x)

tabs_on_init_off_by_one(s) ==
    [s EXCEPT !.tabs = <<make_tab(s.path, s.lines, s.cursor, s.scroll_y,
                                  s.scroll_x, s.dirty)>>,
              !.current_tab = 1]

tabs_on_init(s) ==
    [s EXCEPT !.tabs = <<make_tab(s.path, s.lines, s.cursor, s.scroll_y,
                                  s.scroll_x, s.dirty)>>,
              !.current_tab = 0]

tabs_on_render_overlay(s) ==
    IF 0 <= s.current_tab /\ s.current_tab < Len(s.tabs)
    THEN [s EXCEPT !.tabs[s.current_tab + 1].dirty = s.dirty]
    ELSE s

prev_index_no_wrap(cur, n) == cur - 1

\* The index a previous / next command asks switch_to_tab for.
prev_index(cur, n) == (cur - 1) % n
next_index(cur, n) == (cur + 1) % n

tabs_on_key_new_replaces(s, key) ==
    IF key = KEY_PREV_TAB
    THEN LET s1 == save_current_tab(s)
         IN  [ret |-> TRUE,
              s |-> switch_to_tab(s1, prev_index(s1.current_tab, Len(s1.tabs)))]
    ELSE IF key = KEY_NEXT_TAB
    THEN LET s1 == save_current_tab(s)
         IN  [ret |-> TRUE,
              s |-> switch_to_tab(s1, next_index(s1.current_tab, Len(s1.tabs)))]
    ELSE IF key = KEY_NEW_TAB
    THEN LET s1 == save_current_tab(s)
             s2 == [s1 EXCEPT !.tabs[Len(s1.tabs)] = make_tab_default]
         IN  [ret |-> TRUE, s |-> switch_to_tab(s2, Len(s2.tabs) - 1)]
    ELSE [ret |-> FALSE, s |-> s]

tabs_on_key(s, key) ==
    IF key = KEY_PREV_TAB
    THEN LET s1 == save_current_tab(s)
         IN  [ret |-> TRUE,
              s |-> switch_to_tab(s1, prev_index(s1.current_tab, Len(s1.tabs)))]
    ELSE IF key = KEY_NEXT_TAB
    THEN LET s1 == save_current_tab(s)
         IN  [ret |-> TRUE,
              s |-> switch_to_tab(s1, next_index(s1.current_tab, Len(s1.tabs)))]
    ELSE IF key = KEY_NEW_TAB
    THEN LET s1 == save_current_tab(s)
             s2 == [s1 EXCEPT !.tabs = Append(s1.tabs, make_tab_default)]
         IN  [ret |-> TRUE, s |-> switch_to_tab(s2, Len(s2.tabs) - 1)]
    ELSE [ret |-> FALSE, s |-> s]

tabs_on_saved_nothing(s) == s

tabs_on_saved(s) ==
    IF 0 <= s.current_tab /\ s.current_tab < Len(s.tabs)
    THEN [s EXCEPT !.tabs[s.current_tab + 1].dirty = FALSE]
    ELSE s

\* ------------------------------------------------------ save_untitled.py
\* answer: what the user gave the filename prompt (NoPath: cancelled).
save_untitled_on_before_save(s, answer) ==
    IF s.path # NoPath THEN [ret |-> FALSE, s |-> s]
    ELSE IF answer = NoPath THEN [ret |-> TRUE, s |-> s]
    ELSE [ret |-> FALSE, s |-> set_path(s, answer)]

\* -------------------------------------------------------- extended_keys.py
\* text.split(sep): always at least one part.
RECURSIVE Split(_, _)
Split(text, sep) ==
    IF \A i \in 1..Len(text) : text[i] # sep THEN <<text>>
    ELSE LET k == CHOOSE i \in 1..Len(text) :
                      text[i] = sep /\ \A j \in 1..(i - 1) : text[j] # sep
         IN <<SubSeq(text, 1, k - 1)>> \o Split(SubSeq(text, k + 1, Len(text)), sep)

DigitChars == {"0", "1", "2", "3", "4", "5", "6", "7", "8", "9"}
DigitVal(c) == CASE c = "0" -> 0 [] c = "1" -> 1 [] c = "2" -> 2 [] c = "3" -> 3
                 [] c = "4" -> 4 [] c = "5" -> 5 [] c = "6" -> 6 [] c = "7" -> 7
                 [] c = "8" -> 8 [] c = "9" -> 9

\* str.strip() as int() applies it: blanks at both ends are dropped.
RECURSIVE Strip(_)
Strip(text) ==
    IF Len(text) > 0 /\ text[1] = " " THEN Strip(Tail(text))
    ELSE IF Len(text) > 0 /\ text[Len(text)] = " "
    THEN Strip(SubSeq(text, 1, Len(text) - 1))
    ELSE text

RECURSIVE DecimalValue(_)
DecimalValue(digits) ==
    IF Len(digits) = 0 THEN 0
    ELSE 10 * DecimalValue(SubSeq(digits, 1, Len(digits) - 1))
         + DigitVal(digits[Len(digits)])

\* int(text) over the characters of the model: blanks around, one optional
\* sign, then one or more digits; anything else raises ValueError (ok FALSE).
int(text) ==
    LET body == Strip(text)
        signed == Len(body) > 0 /\ body[1] \in {"-", "+"}
        digits == IF signed THEN Tail(body) ELSE body
    IN  IF Len(digits) = 0 \/ \E i \in 1..Len(digits) : digits[i] \notin DigitChars
        THEN [ok |-> FALSE, val |-> 0]
        ELSE [ok |-> TRUE,
              val |-> IF signed /\ body[1] = "-" THEN 0 - DecimalValue(digits)
                      ELSE DecimalValue(digits)]

\* bits & (2^n) on Python's integers (two's complement, also below zero).
BitSet(bits, n) == (bits \div (2 ^ n)) % 2 = 1

\* chr(codepoint) for the codepoints the model tells apart, and str.lower().
chr(codepoint) ==
    CASE codepoint = 97 -> "a" [] codepoint = 122 -> "z"
      [] codepoint = 65 -> "A" [] codepoint = 90 -> "Z"
      [] codepoint = 0 -> "NUL" [] codepoint = 1 -> "SOH"
      [] codepoint = MAX_CODEPOINT -> "U+10FFFF"
      [] OTHER -> "other"
lower(c) == CASE c = "A" -> "a" [] c = "Z" -> "z" [] OTHER -> c

\* "_".join(parts): the parts with an underscore between two of them.
RECURSIVE JoinUnderscore(_)
JoinUnderscore(parts) ==
    IF Len(parts) <= 1 THEN parts
    ELSE <<parts[1], "_">> \o JoinUnderscore(Tail(parts))

modifier_names_shift_first(bits) ==
    (IF BitSet(bits, 0) THEN <<"shift">> ELSE <<>>)
    \o (IF BitSet(bits, 2) THEN <<"ctrl">> ELSE <<>>)
    \o (IF BitSet(bits, 1) THEN <<"alt">> ELSE <<>>)

\* The list mods (extended_keys.py lines 44-51).
modifier_names(bits) ==
    (IF BitSet(bits, 2) THEN <<"ctrl">> ELSE <<>>)
    \o (IF BitSet(bits, 1) THEN <<"alt">> ELSE <<>>)
    \o (IF BitSet(bits, 0) THEN <<"shift">> ELSE <<>>)

\* A key name is the sequence of its parts, underscores included; None when
\* the sequence is not recognised.
_parse_csi_u(seq) ==
    IF ~(/\ Len(seq) > 0 /\ seq[1] = "[" /\ seq[Len(seq)] = "u"
         /\ \E i \in 1..Len(seq) : seq[i] = ";")
    THEN None
    ELSE LET inner == SubSeq(seq, 2, Len(seq) - 1)
             parts == Split(inner, ";")
         IN  IF Len(parts) # 2 THEN None
             ELSE LET codepoint == int(parts[1])
                      modifier == int(parts[2])
                  IN  IF ~codepoint.ok \/ ~modifier.ok THEN None
                      ELSE IF codepoint.val < 0 \/ codepoint.val > MAX_CODEPOINT
                      THEN None
                      ELSE LET mods == modifier_names(modifier.val - 1)
                               char == lower(chr(codepoint.val))
                           IN  IF Len(mods) > 0
                               THEN JoinUnderscore(mods \o <<char>>)
                               ELSE <<char>>

\* api.dispatch_key(name): the host fires the named key event.
dispatch_key(s, name) == [s EXCEPT !.dispatched = name]

\* ESC: read what is waiting in the terminal; a recognised sequence is
\* consumed and dispatched by name, anything else is pushed back in order.
\* curses.ungetch(ch): ch is what the next getch returns.
ungetch(s, ch) == [s EXCEPT !.pending = <<ch>> \o s.pending]

\* reversed(chars)
reversed(chars) == [i \in 1..Len(chars) |-> chars[Len(chars) + 1 - i]]

\* for ch in reversed(chars): curses.ungetch(ch)
RECURSIVE unget_each(_, _)
unget_each(s, rest) ==
    IF Len(rest) = 0 THEN s
    ELSE unget_each(ungetch(s, rest[1]), Tail(rest))

unget_all_forward(s, chars) == unget_each(s, chars)

unget_all(s, chars) == unget_each(s, reversed(chars))

extended_keys_on_key(s, key) ==
    IF key # KEY_ESC THEN [ret |-> FALSE, s |-> s]
    ELSE LET chars == s.pending
             s1 == [s EXCEPT !.pending = <<>>]
         IN  IF chars = <<>> THEN [ret |-> FALSE, s |-> s1]
             ELSE LET name == _parse_csi_u(chars)
                  IN  IF name = None
                      THEN [ret |-> FALSE, s |-> unget_all(s1, chars)]
                      ELSE [ret |-> TRUE, s |-> dispatch_key(s1, name)]

\* ---------------------------------------------------------- confirm_quit.py
\* answer: what the user gives the prompt of _ask_quit (TRUE: y).
\* asked: the prompt was shown.
confirm_quit_on_before_quit(s, answer) ==
    LET tab_list == get_data(s, "tabs.list")
        has_unsaved == IF tab_list # None
                       THEN \E i \in 1..Len(tab_list) : tab_list[i].dirty
                       ELSE s.dirty
    IN  IF ~has_unsaved THEN [ret |-> FALSE, asked |-> FALSE, s |-> s]
        ELSE IF answer THEN [ret |-> FALSE, asked |-> TRUE, s |-> s]
        ELSE [ret |-> TRUE, asked |-> TRUE, s |-> s]

\* ------------------------------------------- hook registration (setup)
selection_delete_setup == [prio |-> 1, name |-> "selection_delete"]
clipboard_setup == [prio |-> 2, name |-> "clipboard"]
selection_setup_first == [prio |-> 0, name |-> "selection"]
selection_setup == [prio |-> 3, name |-> "selection"]
tabs_setup_early == [prio |-> 0, name |-> "tabs"]
tabs_setup == [prio |-> 5, name |-> "tabs"]
extended_keys_setup == [prio |-> 0, name |-> "extended_keys"]

KeyHooks == {selection_delete_setup, clipboard_setup, selection_setup, tabs_setup}

\* ------------------------------------------------ host dispatcher and core
call(name, s, key) ==
    CASE name = "selection_delete" -> selection_delete_on_key(s, key)
      [] name = "clipboard" -> clipboard_on_key(s, key)
      [] name = "selection" -> selection_on_key(s, key)
      [] name = "tabs" -> tabs_on_key(s, key)
      [] name = "extended_keys" -> extended_keys_on_key(s, key)

\* Handlers run in ascending priority; the first that returns a truthy value
\* stops the propagation.
RECURSIVE dispatch(_, _, _, _)
dispatch(hooks, s, key, invoked) ==
    IF hooks = {} THEN [handled |-> FALSE, s |-> s, invoked |-> invoked]
    ELSE LET h == CHOOSE h \in hooks : \A g \in hooks : h.prio <= g.prio
             r == call(h.name, s, key)
         IN  IF r.ret
             THEN [handled |-> TRUE, s |-> r.s, invoked |-> Append(invoked, h.name)]
             ELSE dispatch(hooks \ {h}, r.s, key, Append(invoked, h.name))

\* The host's own handling of a key no extension handled: a printable
\* character is inserted at the cursor, backspace removes the character
\* before the cursor (joining lines at column 0); both mark the buffer dirty.
host_key(s, key) ==
    LET row == s.cursor[1]
        col == Min(s.cursor[2], Len(s.lines[row + 1]))
        line == s.lines[row + 1]
    IN  IF key = KEY_CHAR_A
        THEN [s EXCEPT !.lines[row + 1] = Take(line, col) \o <<"a">> \o Drop(line, col),
                       !.cursor = <<row, col + 1>>, !.dirty = TRUE]
        ELSE IF key \in BACKSPACE_KEYS /\ col > 0
        THEN [s EXCEPT !.lines[row + 1] = Take(line, col - 1) \o Drop(line, col),
                       !.cursor = <<row, col - 1>>, !.dirty = TRUE]
        ELSE IF key \in BACKSPACE_KEYS /\ row > 0
        THEN [s EXCEPT !.lines = Take(s.lines, row - 1)
                                  \o <<s.lines[row] \o line>> \o Drop(s.lines, row + 1),
                       !.cursor = <<row - 1, Len(s.lines[row])>>, !.dirty = TRUE]
        ELSE s

\* The host's editor state, as a tab snapshot records it.
HostState(s) == make_tab(s.path, s.lines, s.cursor, s.scroll_y, s.scroll_x, s.dirty)

\* ------------------------------------------------------------ the events
DataKeys == {"selection.anchor", "tabs.list"}
Paths == {"f"}

\* The handlers' result becomes the new state.
Apply(s) ==
    /\ lines' = s.lines
    /\ cursor' = s.cursor
    /\ scroll_y' = s.scroll_y
    /\ scroll_x' = s.scroll_x
    /\ path' = s.path
    /\ dirty' = s.dirty
    /\ disk' = s.disk
    /\ data' = s.data
    /\ clipboard' = s.clipboard
    /\ _anchor' = s._anchor
    /\ tabs' = s.tabs
    /\ current_tab' = s.current_tab
    /\ pending' = s.pending
    /\ dispatched' = s.dispatched

\* anchor: SelectionModel's _anchor when the event arrived.
Event(ev, key, handled, invoked) ==
    [ev |-> ev, key |-> key, handled |-> handled, invoked |-> invoked,
     anchor |-> _anchor]

\* The last handler the dispatcher invoked for the last event.
HandledBy ==
    IF last.handled /\ Len(last.invoked) > 0 THEN last.invoked[Len(last.invoked)]
    ELSE "none"

\* init: fired once at startup, the buffer already loaded.
\* Every event counts against the length of the runs explored.
\* After a quit that no handler blocked the editor is gone.
Step == steps < MaxSteps /\ last.ev # "quit" /\ steps' = steps + 1

OnInit ==
    /\ ~inited
    /\ Step
    /\ \E s \in {tabs_on_init(Cur)} : Apply(s)
    /\ inited' = TRUE
    /\ last' = Event("init", 0, FALSE, <<"tabs">>)
    /\ left' = <<None>>
    /\ nav' = <<>>
    /\ shift_run' = None

\* The outcome of one key event: the registered handlers in priority order,
\* then the host's own handling when none of them handled the key.
key_event(s, key) ==
    LET d == dispatch(KeyHooks, s, key, <<>>)
    IN  [d EXCEPT !.s = IF d.handled THEN d.s ELSE host_key(d.s, key)]

\* history: the host state of the tab that a tab command leaves.
LeftNext(d) ==
    IF d.handled /\ d.invoked[Len(d.invoked)] = "tabs"
    THEN [i \in 1..Len(d.s.tabs) |->
            IF i = current_tab + 1 THEN HostState(Cur)
            ELSE IF i <= Len(left) THEN left[i] ELSE None]
    ELSE left

\* history: the previous/next commands since the last other key, each with
\* the active index before it (the last MaxTabs of them).
NavNext(key) ==
    IF key \in {KEY_PREV_TAB, KEY_NEXT_TAB}
    THEN LET l == Append(nav, <<key, current_tab>>)
         IN  IF Len(l) > MaxTabs THEN Tail(l) ELSE l
    ELSE <<>>

\* history: where the current run of consecutive shift+arrow keys began, and
\* whether SelectionModel held no anchor then.
ShiftRunNext(key) ==
    IF key \notin _SHIFT_KEYS THEN None
    ELSE IF shift_run # None THEN shift_run
    ELSE <<cursor, _anchor = None>>

KeyEvent(key) ==
    /\ inited
    /\ Step
    /\ \E d \in {key_event(Cur, key)} :
           /\ Len(d.s.tabs) <= MaxTabs
           /\ Apply(d.s)
           /\ last' = Event("key", key, d.handled, d.invoked)
           /\ left' = LeftNext(d)
           /\ nav' = NavNext(key)
           /\ shift_run' = ShiftRunNext(key)
    /\ inited' = inited

\* The ESC key: ExtendedKeys (priority 0) sees it before the other handlers,
\* which all decline it; for every other key ExtendedKeys returns False at
\* once and is left out of KeyHooks.
esc_event(s) ==
    LET d == dispatch(KeyHooks \cup {extended_keys_setup}, s, KEY_ESC, <<>>)
    IN  [d EXCEPT !.s = IF d.handled THEN d.s ELSE host_key(d.s, KEY_ESC)]

EscKey ==
    /\ inited
    /\ Step
    /\ \E d \in {esc_event(Cur)} :
           /\ Apply(d.s)
           /\ last' = Event("key", KEY_ESC, d.handled, d.invoked)
    /\ nav' = <<>>
    /\ shift_run' = None
    /\ UNCHANGED <<inited, left>>

\* The host's save: before_save (cancellable), the write, then saved.
host_save(s) == [s EXCEPT !.disk[s.path] = s.lines, !.dirty = FALSE]

save_event(s, answer) ==
    LET b == save_untitled_on_before_save(s, answer)
    IN  IF b.ret THEN [saved |-> FALSE, s |-> b.s]
        ELSE [saved |-> TRUE, s |-> tabs_on_saved(host_save(b.s))]

Save ==
    /\ inited
    /\ Step
    /\ \E answer \in Paths \cup {NoPath} :
         \E r \in {save_event(Cur, answer)} :
           /\ Apply(r.s)
           /\ last' = IF r.saved THEN Event("saved", 0, FALSE, <<"tabs">>)
                      ELSE Event("before_save", 0, TRUE, <<"save_untitled">>)
    /\ UNCHANGED <<inited, left, nav, shift_run>>

\* before_quit: ConfirmQuit is its only handler; a handled event blocks the
\* quit, otherwise the editor quits.
BeforeQuit ==
    /\ inited
    /\ Step
    /\ \E answer \in BOOLEAN :
         \E r \in {confirm_quit_on_before_quit(Cur, answer)} :
           /\ Apply(r.s)
           /\ last' = Event(IF r.ret THEN "before_quit" ELSE "quit", 0, r.ret,
                            IF r.asked THEN <<"confirm_quit", "_ask_quit">>
                            ELSE <<"confirm_quit">>)
    /\ UNCHANGED <<inited, left, nav, shift_run>>

\* render_overlay: once per frame. The selection overlay only draws; the tab
\* bar refreshes the active tab's dirty flag before it draws.
RenderOverlay ==
    /\ inited
    /\ Step
    /\ \E s \in {tabs_on_render_overlay(Cur)} : Apply(s)
    /\ last' = Event("render_overlay", 0, FALSE, <<"selection", "tabs">>)
    /\ UNCHANGED <<inited, left, nav, shift_run>>

\* The host scrolls the view by one row or one column.
HostScroll ==
    /\ inited
    /\ Step
    /\ \E y \in 0..MaxScroll, x \in 0..MaxScroll :
         /\ \/ (x = scroll_x /\ (y = scroll_y + 1 \/ y = scroll_y - 1))
            \/ (y = scroll_y /\ (x = scroll_x + 1 \/ x = scroll_x - 1))
         /\ scroll_y' = y
         /\ scroll_x' = x
    /\ last' = Event("scroll", 0, FALSE, <<>>)
    /\ UNCHANGED <<lines, cursor, path, dirty, disk, data, clipboard, _anchor,
                   tabs, current_tab, pending, dispatched, inited, left, nav,
                   shift_run>>

\* Another program rewrites or removes a file.
ExternalContent == << <<"b", "b">> >>
DiskChange ==
    /\ inited
    /\ Step
    /\ \E p \in Paths, c \in {NoFile, ExternalContent} :
         /\ disk[p] # c
         /\ disk' = [disk EXCEPT ![p] = c]
    /\ last' = Event("disk", 0, FALSE, <<>>)
    /\ UNCHANGED <<lines, cursor, scroll_y, scroll_x, path, dirty, data, clipboard,
                   _anchor, tabs, current_tab, pending, dispatched, inited, left,
                   nav, shift_run>>

\* ---------------------------------------------------------- Spec: editing
EditKeys == _SHIFT_KEYS \cup {KEY_DEL, KEY_COPY, KEY_PASTE, KEY_CHAR_A}

InitBuffers == { << <<"a", "b">>, <<"b">> >>, << <<"a">>, <<>>, <<"b", "a">> >> }
\* What the system clipboard may hold at startup.
InitClips == { <<>>, <<"b">>, <<"a", NL, "b">> }

InitCommon ==
    /\ cursor = <<0, 0>>
    /\ scroll_y = 0
    /\ scroll_x = 0
    /\ dirty = FALSE
    /\ data = [k \in DataKeys |-> None]
    /\ _anchor = None
    /\ tabs = <<>>
    /\ current_tab = 0
    /\ dispatched = None
    /\ inited = FALSE
    /\ last = Event("none", 0, FALSE, <<>>)
    /\ left = <<>>
    /\ nav = <<>>
    /\ shift_run = None
    /\ steps = 0

Init ==
    /\ InitCommon
    /\ lines \in InitBuffers
    /\ path = NoPath
    /\ disk = [p \in Paths |-> NoFile]
    /\ clipboard \in {Encode(text) : text \in InitClips}
    /\ pending = <<>>

Next ==
    \/ OnInit
    \/ \E key \in EditKeys : KeyEvent(key)

Spec == Init /\ [][Next]_vars

\* ------------------------------------------------- claims about editing
Anchor == data["selection.anchor"]
\* A non-empty selection is active, as copy and delete see it.
ActiveSelection == Anchor # None /\ Anchor # cursor
KeyEv(keys) == last.ev = "key" /\ last.key \in keys
InBuffer(p, lns) == p[1] < Len(lns) /\ p[2] <= Len(lns[p[1] + 1])

\* The characters from (sr, sc) up to, not including, (er, ec), row by row,
\* a newline between two rows.
RECURSIVE RangeText(_, _, _, _, _)
RangeText(lns, sr, sc, er, ec) ==
    IF sr = er THEN [j \in 1..(ec - sc) |-> lns[sr + 1][sc + j]]
    ELSE [j \in 1..(Len(lns[sr + 1]) - sc) |-> lns[sr + 1][sc + j]]
         \o <<NL>> \o RangeText(lns, sr + 1, 0, er, ec)

\* C1: after a backspace-class key that SelectionDeletion handled, no anchor
\* is active, neither in the blackboard entry selection.anchor nor in
\* SelectionModel's own _anchor (so that the next shift+direction key starts
\* a new selection at the cursor).
C1_SelectionConsumed ==
    (KeyEv(BACKSPACE_KEYS) /\ HandledBy = "selection_delete")
        => (Anchor = None /\ _anchor = None)

\* C2: a key event runs the handlers in ascending priority and stops at the
\* first that handles it: with a non-empty selection active, a backspace-class
\* key is handled by SelectionDeletion alone and the copy key by
\* ClipboardBridge after SelectionDeletion declined, both acting on the
\* selection they found (the range start becomes the cursor, the range text
\* reaches the clipboard); SelectionModel is not invoked in that event, so
\* its anchor is not cleared under them; and no handler is invoked after the
\* one that handled the key.
C2_PriorityOrder ==
    [][(last'.ev = "key") =>
        /\ (ActiveSelection /\ last'.key \in BACKSPACE_KEYS) =>
              /\ last'.handled
              /\ last'.invoked = <<"selection_delete">>
              /\ cursor' = (IF TupleLeq(Anchor, cursor) THEN Anchor ELSE cursor)
              /\ _anchor' = _anchor
        /\ (ActiveSelection /\ last'.key = KEY_COPY) =>
              /\ last'.handled
              /\ last'.invoked = <<"selection_delete", "clipboard">>
              /\ clipboard' = Encode(_extract_selected_text(lines, Anchor, cursor))
              /\ Anchor' = Anchor /\ _anchor' = _anchor
        /\ (last'.key = KEY_PASTE) =>
              last'.handled /\ last'.invoked = <<"selection_delete", "clipboard">>
        /\ (last'.key \in _SHIFT_KEYS) =>
              last'.handled
              /\ last'.invoked = <<"selection_delete", "clipboard", "selection">>
        /\ (~last'.handled) =>
              last'.invoked = <<"selection_delete", "clipboard", "selection", "tabs">>
    ]_vars

C2_Witness ==
    /\ KeyEv({KEY_COPY}) /\ HandledBy = "clipboard"
    /\ ActiveSelection /\ _anchor = Anchor
    /\ clipboard # <<>>

Declined(ev, name) ==
    \E i \in 1..(Len(ev.invoked) - 1) : ev.invoked[i] = name

\* C11: a key that is not a shift+direction key, reaching SelectionModel
\* while it holds an anchor, clears the anchor and publishes "no selection",
\* is reported not handled, and the handler changes neither the buffer nor
\* the cursor (after a key the host does nothing with, such as the copy key
\* without a selection to copy, both are as before the event).
C11_OtherKeyClears ==
    [][(/\ last'.ev = "key" /\ last'.key \notin _SHIFT_KEYS
        /\ \E i \in 1..Len(last'.invoked) : last'.invoked[i] = "selection"
        /\ _anchor # None) =>
        LET r == selection_on_key(Cur, last'.key)
        IN  /\ ~r.ret
            /\ r.s.lines = lines /\ r.s.cursor = cursor
            /\ r.s._anchor = None /\ r.s.data["selection.anchor"] = None
            /\ Declined(last', "selection")
            /\ _anchor' = None /\ Anchor' = None
            /\ (last'.key = KEY_COPY) => (lines' = lines /\ cursor' = cursor)
    ]_vars

C11_Witness ==
    /\ KeyEv({KEY_COPY}) /\ Declined(last, "selection")
    /\ last.anchor # None /\ last.anchor = cursor
    /\ _anchor = None /\ Anchor = None

\* C12: a copy key or a backspace-class key that arrives while the blackboard
\* anchor is absent or equal to the cursor is declined by SelectionDeletion
\* and by ClipboardBridge, and neither changes anything: buffer, cursor,
\* clipboard and blackboard anchor are what they were (the clipboard is
\* unchanged by the whole event; after the copy key so are buffer and cursor).
C12_EmptySelectionDeclined ==
    [][(/\ last'.ev = "key" /\ last'.key \in BACKSPACE_KEYS \cup {KEY_COPY}
        /\ (Anchor = None \/ Anchor = cursor)) =>
        LET d == selection_delete_on_key(Cur, last'.key)
            c == clipboard_on_key(Cur, last'.key)
        IN  /\ ~d.ret /\ d.s = Cur
            /\ ~c.ret /\ c.s = Cur
            /\ Declined(last', "selection_delete")
            /\ Declined(last', "clipboard")
            /\ clipboard' = clipboard
            /\ (last'.key = KEY_COPY) => (lines' = lines /\ cursor' = cursor)
            /\ (_anchor = None) => (data' = data)
    ]_vars

C12_Witness ==
    /\ KeyEv(BACKSPACE_KEYS) /\ ~last.handled
    /\ Declined(last, "selection_delete") /\ Declined(last, "clipboard")
    /\ last.anchor # None /\ last.anchor = <<cursor[1], cursor[2] + 1>>
    /\ dirty

\* The newlines of a text, and its segments p[0..k] between them: segment n
\* lies between the n-th and the (n+1)-th newline.
Newlines(text) == {i \in 1..Len(text) : text[i] = NL}
NewlineAt(text, n) ==
    IF n = 0 THEN 0
    ELSE IF n > Cardinality(Newlines(text)) THEN Len(text) + 1
    ELSE CHOOSE i \in Newlines(text) :
             Cardinality({j \in Newlines(text) : j < i}) = n - 1
Segment(text, n) ==
    SubSeq(text, NewlineAt(text, n) + 1, NewlineAt(text, n + 1) - 1)

\* The text the clipboard holds, and the line at the cursor cut at the
\* cursor column.
Pasted == Decode(clipboard)
CursorLine == lines[cursor[1] + 1]
CutCol == IF cursor[2] < Len(CursorLine) THEN cursor[2] ELSE Len(CursorLine)
BeforeCursor == SubSeq(CursorLine, 1, CutCol)
AfterCursor == SubSeq(CursorLine, CutCol + 1, Len(CursorLine))

\* C14: the paste key with non-empty clipboard text of segments p[0..k] is
\* handled by ClipboardBridge; the lines before the cursor row stay, the
\* cursor row becomes line[:col] + p[0], then p[1..k-1] as whole lines, then
\* p[k] + line[col:] (for k = 0 the one line line[:col] + p[0] + line[col:]),
\* the lines after the cursor row follow unchanged, and the buffer is k lines
\* longer; "a\nb" at (0,2) in ["xxyyzz"] gives ["xxa", "byyzz"].
C14_PasteSplice ==
    [][(last'.ev = "key" /\ last'.key = KEY_PASTE /\ clipboard # <<>>) =>
        LET k == Cardinality(Newlines(Pasted))
            row == cursor[1]
        IN  /\ last'.handled
            /\ last'.invoked[Len(last'.invoked)] = "clipboard"
            /\ Len(lines') = Len(lines) + k
            /\ \A i \in 1..row : lines'[i] = lines[i]
            /\ \A i \in (row + 2)..Len(lines) : lines'[i + k] = lines[i]
            /\ (k = 0) =>
                  lines'[row + 1] = BeforeCursor \o Segment(Pasted, 0) \o AfterCursor
            /\ (k > 0) =>
                  /\ lines'[row + 1] = BeforeCursor \o Segment(Pasted, 0)
                  /\ \A n \in 1..(k - 1) : lines'[row + 1 + n] = Segment(Pasted, n)
                  /\ lines'[row + 1 + k] = Segment(Pasted, k) \o AfterCursor
            /\ paste_lines(<< <<"x", "x", "y", "y", "z", "z">> >>, 0, 2, <<"a", NL, "b">>)
                  = << <<"x", "x", "a">>, <<"b", "y", "y", "z", "z">> >>
    ]_vars

C14_Witness ==
    /\ KeyEv({KEY_PASTE}) /\ HandledBy = "clipboard"
    /\ Cardinality(Newlines(Pasted)) = 2
    /\ Len(lines) = 5 /\ cursor[1] = 4
    /\ Len(CursorLine) > cursor[2] /\ cursor[2] > 0

\* C15: after a paste of non-empty text the cursor is at the end of the
\* inserted text: (row, col + length of the text) for one segment, otherwise
\* (row + number of segments - 1, length of the last segment); it is a
\* position of the buffer, the characters before it (back to the column where
\* the paste began) are the pasted text, and the characters from it to the
\* end of its line are the original line[row][col:].
C15_PasteCursor ==
    [][(last'.ev = "key" /\ last'.key = KEY_PASTE /\ clipboard # <<>>) =>
        LET k == Cardinality(Newlines(Pasted))
            row == cursor[1]
            col == cursor[2]
            end_line == lines'[cursor'[1] + 1]
        IN  /\ cursor' = IF k = 0 THEN <<row, col + Len(Pasted)>>
                         ELSE <<row + k, Len(Segment(Pasted, k))>>
            /\ cursor'[1] < Len(lines')
            /\ cursor'[2] <= Len(end_line)
            /\ col <= Len(lines'[row + 1])
            /\ RangeText(lines', row, col, cursor'[1], cursor'[2]) = Pasted
            /\ SubSeq(end_line, cursor'[2] + 1, Len(end_line)) = AfterCursor
    ]_vars

\* C16: a shift+direction key moves the cursor one unit in its direction or
\* not at all (left: not at column 0; up: not at row 0; right: not at the end
\* of the line; down: not on the last line), and the cursor is then a
\* position inside the buffer.
C16_ShiftMoveClamped ==
    [][(last'.ev = "key" /\ last'.key \in _SHIFT_KEYS /\ InBuffer(cursor, lines)) =>
        LET row == cursor[1]
            col == cursor[2]
            key == last'.key
        IN  /\ lines' = lines
            /\ (key = KEY_SLEFT) =>
                  cursor' = IF col = 0 THEN cursor ELSE <<row, col - 1>>
            /\ (key = KEY_SRIGHT) =>
                  cursor' = IF col = Len(lines[row + 1]) THEN cursor ELSE <<row, col + 1>>
            /\ (key = KEY_SUP) =>
                  cursor'[1] = IF row = 0 THEN row ELSE row - 1
            /\ (key = KEY_SDOWN) =>
                  cursor'[1] = IF row = Len(lines) - 1 THEN row ELSE row + 1
            /\ InBuffer(cursor', lines')
    ]_vars

\* --------------------------------- SpecPure: the edits on every small buffer
\* Every line of at most n characters, every buffer of 1..m such lines.
AllLines(n) == UNION {[1..k -> Alphabet] : k \in 0..n}
AllBuffers(m, n) == UNION {[1..k -> AllLines(n)] : k \in 1..m}

\* The buffers of the scenarios of the specification, and two with a middle
\* line inside the selection.
ScenarioBuffers ==
    { << <<"h", "e", "l", "l", "o">>, <<"w", "o", "r", "l", "d">> >>,
      << <<"a", "b">>, <<"b", "a">>, <<"b">> >>,
      << <<"a">>, <<>>, <<"b", "a">> >> }

PureBuffers == AllBuffers(PureLines, PureLen) \cup ScenarioBuffers

\* The positions inside a buffer.
Positions(lns) ==
    UNION {{<<r, c>> : c \in 0..Len(lns[r + 1])} : r \in 0..(Len(lns) - 1)}

\* The editor after init, with any buffer, any cursor and any other position
\* as the anchor of an active selection; the clipboard holds foreign text.
InitPure ==
    /\ lines \in PureBuffers
    /\ cursor \in Positions(lines)
    /\ _anchor \in Positions(lines) \ {cursor}
    /\ data = [k \in DataKeys |-> IF k = "selection.anchor" THEN _anchor ELSE None]
    /\ scroll_y = 0
    /\ scroll_x = 0
    /\ dirty = FALSE
    /\ path = NoPath
    /\ disk = [p \in Paths |-> NoFile]
    /\ clipboard = Encode(<<"x">>)
    /\ tabs = <<make_tab(path, lines, cursor, scroll_y, scroll_x, dirty)>>
    /\ current_tab = 0
    /\ pending = <<>>
    /\ dispatched = None
    /\ inited = TRUE
    /\ last = Event("init", 0, FALSE, <<"tabs">>)
    /\ left = <<None>>
    /\ nav = <<>>
    /\ shift_run = None
    /\ steps = 0

\* copy, then delete, then paste.
PureCopy == steps = 0 /\ KeyEvent(KEY_COPY)
PureDelete == KeyEv({KEY_COPY}) /\ KeyEvent(KEY_BACKSPACE)
PurePaste == KeyEv(BACKSPACE_KEYS) /\ last.handled /\ KeyEvent(KEY_PASTE)

NextPure == PureCopy \/ PureDelete \/ PurePaste

SpecPure == InitPure /\ [][NextPure]_vars

\* The buffer as it was at init: no event of SpecPure touches the snapshot
\* that init took.
Original == tabs[1].lines

\* C3: with anchor # cursor both inside the buffer, a backspace-class key is
\* handled by SelectionDeletion and leaves lines[0..sr) unchanged, then the
\* one line line[sr][:sc] + line[er][ec:], then lines(er..end] unchanged (the
\* lines strictly between are gone), with the cursor at (sr, sc), for the
\* normalized range (sr, sc, er, ec); on ["hello","world"] with anchor (0,1)
\* and cursor (1,3) the result is ["hld"], cursor (0,1).
C3_DeleteRange ==
    [][(/\ last'.ev = "key" /\ last'.key \in BACKSPACE_KEYS
        /\ ActiveSelection
        /\ InBuffer(Anchor, lines) /\ InBuffer(cursor, lines)) =>
        LET afirst == Anchor[1] < cursor[1]
                        \/ (Anchor[1] = cursor[1] /\ Anchor[2] < cursor[2])
            sr == IF afirst THEN Anchor[1] ELSE cursor[1]
            sc == IF afirst THEN Anchor[2] ELSE cursor[2]
            er == IF afirst THEN cursor[1] ELSE Anchor[1]
            ec == IF afirst THEN cursor[2] ELSE Anchor[2]
        IN  /\ last'.handled
            /\ last'.invoked = <<"selection_delete">>
            /\ cursor' = <<sr, sc>>
            /\ Len(lines') = Len(lines) - (er - sr)
            /\ \A i \in 1..sr : lines'[i] = lines[i]
            /\ \A i \in (sr + 2)..Len(lines') : lines'[i] = lines[i + (er - sr)]
            /\ Len(lines'[sr + 1]) = sc + Len(lines[er + 1]) - ec
            /\ \A j \in 1..Len(lines'[sr + 1]) :
                   lines'[sr + 1][j] = IF j <= sc THEN lines[sr + 1][j]
                                       ELSE lines[er + 1][j - sc + ec]
            /\ (/\ lines = << <<"h", "e", "l", "l", "o">>, <<"w", "o", "r", "l", "d">> >>
                /\ Anchor = <<0, 1>> /\ cursor = <<1, 3>>)
                   => (lines' = << <<"h", "l", "d">> >> /\ cursor' = <<0, 1>>)
    ]_vars

C3_Witness ==
    /\ KeyEv(BACKSPACE_KEYS) /\ HandledBy = "selection_delete"
    /\ Len(Original) = 3 /\ Len(lines) = 1 /\ Len(lines[1]) = 2
    /\ cursor = <<0, 1>>

\* The earlier of two positions.
First(p, q) == IF p[1] < q[1] \/ (p[1] = q[1] /\ p[2] <= q[2]) THEN p ELSE q
Second(p, q) == IF First(p, q) = p THEN q ELSE p

\* C13: the copy key with a non-empty selection inside the buffer is handled
\* by ClipboardBridge and puts on the clipboard exactly the characters from
\* the earlier to the later of anchor and cursor (rest of the first line, the
\* middle lines in full, the head of the last line, newline-joined; on one
\* line line[sc:ec]), the same for (anchor, cursor) and (cursor, anchor);
\* buffer, cursor and anchor are unchanged.
C13_CopyExtract ==
    [][(/\ last'.ev = "key" /\ last'.key = KEY_COPY
        /\ ActiveSelection
        /\ InBuffer(Anchor, lines) /\ InBuffer(cursor, lines)) =>
        LET start == First(Anchor, cursor)
            end == Second(Anchor, cursor)
            text == RangeText(lines, start[1], start[2], end[1], end[2])
        IN  /\ last'.handled
            /\ last'.invoked[Len(last'.invoked)] = "clipboard"
            /\ clipboard' = [i \in 1..Len(text) |-> Ord(text[i])]
            /\ _extract_selected_text(lines, Anchor, cursor) = text
            /\ _extract_selected_text(lines, cursor, Anchor) = text
            /\ lines' = lines /\ cursor' = cursor
            /\ Anchor' = Anchor /\ _anchor' = _anchor
    ]_vars

C13_Witness ==
    /\ KeyEv({KEY_COPY}) /\ HandledBy = "clipboard"
    /\ lines = << <<"a", "b">>, <<"b", "a">>, <<"b">> >>
    /\ cursor = <<0, 1>> /\ Anchor = <<2, 1>>
    /\ Decode(clipboard) = <<"b", NL, "b", "a", NL, "b">>

\* C4: extracting the range (A, C) to the clipboard, deleting it with
\* SelectionDeletion and pasting the clipboard at the cursor the delete left
\* gives back the original buffer, line by line.
C4_RoundTrip ==
    (steps = 3 /\ KeyEv({KEY_PASTE})) => lines = Original

C4_Witness ==
    /\ steps = 3 /\ KeyEv({KEY_PASTE}) /\ HandledBy = "clipboard"
    /\ Len(Original) = 3 /\ lines = Original
    /\ Cardinality({i \in 1..Len(clipboard) : clipboard[i] = Ord(NL)}) = 2

\* ------------------------------------------------- SpecTabs: the tab manager
TabsKeys == TAB_KEYS \cup {KEY_CHAR_A}
FileContent == << <<"b">> >>

\* The host starts on an untitled empty buffer or on the file it was given.
InitTabs ==
    /\ InitCommon
    /\ clipboard = <<>>
    /\ pending = <<>>
    /\ \/ /\ path = NoPath
          /\ lines = << <<>> >>
          /\ disk = [p \in Paths |-> NoFile]
       \/ /\ path \in Paths
          /\ lines = FileContent
          /\ disk = [p \in Paths |-> FileContent]

NextTabs ==
    \/ OnInit
    \/ \E key \in TabsKeys : KeyEvent(key)
    \/ Save
    \/ RenderOverlay
    \/ HostScroll
    \/ DiskChange
    \/ BeforeQuit

SpecTabs == InitTabs /\ [][NextTabs]_vars

\* --------------------------------------------- claims about the tab manager
Host == HostState(Cur)
Active == tabs[current_tab + 1]
\* What the host held when the now active tab was last left (None: never left).
LeftActive == left[current_tab + 1]

\* C5: a tab command that makes a tab with unsaved edits active again gives
\* the host the lines, cursor, scroll_y, scroll_x, path and dirty flag it had
\* when that tab was left.
C5_SwitchRestores ==
    (KeyEv(TAB_KEYS) /\ LeftActive # None /\ LeftActive.dirty) => Host = LeftActive

C5_Witness ==
    /\ KeyEv({KEY_PREV_TAB, KEY_NEXT_TAB}) /\ HandledBy = "tabs"
    /\ Len(tabs) >= 2
    /\ LeftActive # None /\ LeftActive.dirty /\ Host = LeftActive
    /\ dirty /\ cursor # <<0, 0>> /\ scroll_x = 1 /\ scroll_y = 0
    /\ \E i \in 1..Len(tabs) : i # current_tab + 1 /\ tabs[i].lines # lines

\* C6: init creates exactly one snapshot, of the host's buffer, and makes it
\* active; from then on the registry is never empty and current_tab indexes it.
C6_RegistryInvariant ==
    /\ inited => (Len(tabs) >= 1 /\ 0 <= current_tab /\ current_tab < Len(tabs))
    /\ (last.ev = "init") => (Len(tabs) = 1 /\ current_tab = 0 /\ tabs[1] = Host)

C6_Witness ==
    /\ KeyEv({KEY_NEXT_TAB}) /\ Len(tabs) = MaxTabs /\ current_tab = 0
    /\ Len(nav) >= 1 /\ nav[Len(nav)][2] = MaxTabs - 1

\* C7: after init the active snapshot's dirty field equals the host's
\* unsaved-changes flag in every state, and an inactive snapshot's dirty field
\* is the host's flag as it was when that tab was left.
C7_DirtyMirror ==
    inited =>
        /\ Active.dirty = dirty
        /\ \A i \in 1..Len(tabs) :
              (i # current_tab + 1 /\ left[i] # None) => tabs[i].dirty = left[i].dirty

\* C8: after a saved event the active snapshot is clean, and a tab command
\* that returns to a tab left clean leaves host and snapshot clean.
C8_DirtyPropagation ==
    /\ (last.ev = "saved") => ~Active.dirty
    /\ (KeyEv(TAB_KEYS) /\ LeftActive # None /\ ~LeftActive.dirty)
          => (~dirty /\ ~Active.dirty)

C8_Witness ==
    /\ KeyEv({KEY_PREV_TAB, KEY_NEXT_TAB}) /\ Len(tabs) >= 2
    /\ LeftActive # None /\ ~LeftActive.dirty
    /\ path # NoPath /\ disk[path] = lines /\ lines # FileContent
    /\ ~dirty /\ ~Active.dirty

\* C9: previous from 0 goes to N-1 and otherwise one down, next from N-1 goes
\* to 0 and otherwise one up; previous after next and next after previous give
\* back the index before the pair; N previous (or N next) commands in a row
\* give back the index before the first.
C9_Wraparound ==
    LET n == Len(tabs)
        k == Len(nav)
    IN  /\ (k >= 1) =>
              current_tab = (IF nav[k][1] = KEY_PREV_TAB
                             THEN (IF nav[k][2] = 0 THEN n - 1 ELSE nav[k][2] - 1)
                             ELSE (IF nav[k][2] = n - 1 THEN 0 ELSE nav[k][2] + 1))
        /\ (k >= 2 /\ nav[k][1] # nav[k - 1][1]) => current_tab = nav[k - 1][2]
        /\ (k >= n /\ n >= 1 /\ \A i \in (k - n + 1)..k : nav[i][1] = nav[k][1])
              => current_tab = nav[k - n + 1][2]

C9_Witness ==
    /\ Len(tabs) = 3 /\ Len(nav) = 3
    /\ \A i \in 1..3 : nav[i][1] = KEY_PREV_TAB
    /\ nav[1][2] = 1 /\ current_tab = 1

\* What activate(index) does in the current state, given when it reloads:
\* in bounds, the host gets the file's lines from disk (clean) or the
\* snapshot's lines and dirty flag, the snapshot's path, cursor and scroll
\* offsets, and the index becomes current; out of bounds, nothing changes.
ActivateOutcome(Reloads(_)) ==
    inited =>
        /\ \A index \in 0..(Len(tabs) - 1) :
              LET tab == tabs[index + 1]
                  r == switch_to_tab(Cur, index)
              IN  /\ r.lines = IF Reloads(tab) THEN disk[tab.path] ELSE tab.lines
                  /\ r.dirty = IF Reloads(tab) THEN FALSE ELSE tab.dirty
                  /\ r.path = tab.path
                  /\ r.cursor = tab.cursor
                  /\ r.scroll_y = tab.scroll_y /\ r.scroll_x = tab.scroll_x
                  /\ r.current_tab = index
                  /\ r.tabs = tabs
        /\ \A index \in {0 - 1, Len(tabs), Len(tabs) + 1} :
              switch_to_tab(Cur, index) = Cur

ReloadsAsStated(tab) == tab.path # NoPath /\ ~tab.dirty
ReloadsIfOnDisk(tab) == tab.path # NoPath /\ ~tab.dirty /\ disk[tab.path] # NoFile

\* C17 as stated: activate reloads the file from disk if and only if the
\* target snapshot has a known path and is not dirty.
C17_ActivateAsStated == ActivateOutcome(ReloadsAsStated)

\* C17, amended: activate reloads the file from disk if and only if the
\* target snapshot has a known path, is not dirty and the file exists on
\* disk; in every other case the host gets the snapshot's lines, dirty flag
\* and path; cursor and scroll offsets come from the snapshot in both cases;
\* an out-of-bounds index changes nothing.
C17_Activate == ActivateOutcome(ReloadsIfOnDisk)

C17_Witness ==
    /\ KeyEv({KEY_PREV_TAB, KEY_NEXT_TAB}) /\ HandledBy = "tabs"
    /\ Len(tabs) >= 2
    /\ path # NoPath /\ ~dirty /\ disk[path] = NoFile
    /\ lines = Active.lines /\ lines = FileContent

\* C18: a new-tab command makes the registry one longer, the new snapshot
\* (no path, one empty line, cursor (0,0), clean) is the last and the active
\* one, and the host shows it; the snapshots that existed keep their index
\* and their contents, the one that was active holding what the host held;
\* and no step of any kind makes the registry shorter.
C18_NewTab ==
    [][/\ Len(tabs') >= Len(tabs)
       /\ \A i \in 1..Len(tabs) :
             (tabs'[i] # tabs[i]) => (i = current_tab + 1)
       /\ (last'.ev = "key" /\ last'.key = KEY_NEW_TAB) =>
             /\ last'.handled
             /\ Len(tabs') = Len(tabs) + 1
             /\ current_tab' = Len(tabs)
             /\ tabs'[Len(tabs')] =
                   [path |-> NoPath, lines |-> << <<>> >>, cursor |-> <<0, 0>>,
                    scroll_y |-> 0, scroll_x |-> 0, dirty |-> FALSE]
             /\ path' = NoPath /\ lines' = << <<>> >>
             /\ cursor' = <<0, 0>> /\ dirty' = FALSE
             /\ \A i \in 1..Len(tabs) :
                   tabs'[i] = IF i = current_tab + 1 THEN Host ELSE tabs[i]
    ]_vars

C18_Witness ==
    /\ KeyEv({KEY_NEW_TAB}) /\ HandledBy = "tabs"
    /\ Len(tabs) = 3 /\ current_tab = 2
    /\ path = NoPath /\ lines = << <<>> >> /\ ~dirty
    /\ tabs[1].path # NoPath /\ tabs[2].dirty /\ tabs[2].lines # << <<>> >>

\* ------------------------------------- SpecKeys: the escape-sequence decoder
KeyAlphabet == {"[", ";", "u", "0", "1", "-", "a"}
\* Every sequence of at most n characters.
AllSeqs(n) == UNION {[1..k -> KeyAlphabet] : k \in 0..n}

CodeFields ==
    { <<"9", "7">>, <<"1", "2", "2">>, <<"6", "5">>, <<"0">>,
      <<"1", "1", "1", "4", "1", "1", "1">>, <<"1", "1", "1", "4", "1", "1", "2">>,
      <<"-", "1">>, <<"a", "b", "c">>, <<" ", "9", "7">> }
ModFields ==
    { <<"0">>, <<"1">>, <<"2">>, <<"3">>, <<"4">>, <<"5">>, <<"6">>, <<"7">>,
      <<"8">>, <<"9">>, <<"9", "9">>, <<"-", "3">> }
\* [<codepoint>;<modifier>u for the fields above.
FieldSeqs ==
    {<<"[">> \o c \o <<";">> \o m \o <<"u">> : c \in CodeFields, m \in ModFields}

KeySeqs == AllSeqs(MaxSeqLen) \cup FieldSeqs

\* The editor after init on an empty buffer; ESC was read and the sequence
\* is waiting in the terminal.
InitKeys ==
    /\ pending \in KeySeqs
    /\ dispatched = None
    /\ lines = << <<>> >>
    /\ cursor = <<0, 0>>
    /\ scroll_y = 0
    /\ scroll_x = 0
    /\ dirty = FALSE
    /\ path = NoPath
    /\ disk = [p \in Paths |-> NoFile]
    /\ data = [k \in DataKeys |-> None]
    /\ clipboard = <<>>
    /\ _anchor = None
    /\ tabs = <<make_tab(path, lines, cursor, scroll_y, scroll_x, dirty)>>
    /\ current_tab = 0
    /\ inited = TRUE
    /\ last = Event("init", 0, FALSE, <<"tabs">>)
    /\ left = <<None>>
    /\ nav = <<>>
    /\ shift_run = None
    /\ steps = 0

DecodeEsc == steps = 0 /\ EscKey

NextKeys == DecodeEsc

SpecKeys == InitKeys /\ [][NextKeys]_vars

\* A field is a positive integer: digits only, value above zero.
PositiveField(f) ==
    /\ Len(f) >= 1
    /\ \A i \in 1..Len(f) : f[i] \in DigitChars
    /\ DecimalValue(f) > 0
\* seq is a bracket, a positive integer, a semicolon (at i), a positive
\* integer and the letter u, the first integer a codepoint.
WellFormedAt(seq, i) ==
    /\ Len(seq) >= 5 /\ 2 < i /\ i < Len(seq) - 1
    /\ seq[1] = "[" /\ seq[i] = ";" /\ seq[Len(seq)] = "u"
    /\ PositiveField(SubSeq(seq, 2, i - 1))
    /\ PositiveField(SubSeq(seq, i + 1, Len(seq) - 1))
    /\ DecimalValue(SubSeq(seq, 2, i - 1)) <= MAX_CODEPOINT
WellFormed(seq) == \E i \in 1..Len(seq) : WellFormedAt(seq, i)

\* C19: a well-formed sequence with a valid codepoint is decoded to the
\* name with ctrl iff bit 2 of modifier - 1 is set, alt iff bit 1, shift iff
\* bit 0, in the order ctrl, alt, shift, joined by underscores with the
\* lowercase character; the bare character when no bit is set; "[122;6u"
\* gives ctrl_shift_z and "[97;1u" gives a.
C19_DecodeName ==
    [][(last'.ev = "key" /\ last'.key = KEY_ESC /\ WellFormed(pending)) =>
        LET i == CHOOSE i \in 1..Len(pending) : WellFormedAt(pending, i)
            codepoint == DecimalValue(SubSeq(pending, 2, i - 1))
            bits == DecimalValue(SubSeq(pending, i + 1, Len(pending) - 1)) - 1
            ctrl == (bits \div 4) % 2 = 1
            alt == (bits \div 2) % 2 = 1
            shift == bits % 2 = 1
            char == lower(chr(codepoint))
            name == (IF ctrl THEN <<"ctrl", "_">> ELSE <<>>)
                    \o (IF alt THEN <<"alt", "_">> ELSE <<>>)
                    \o (IF shift THEN <<"shift", "_">> ELSE <<>>)
                    \o <<char>>
        IN  /\ last'.handled /\ last'.invoked = <<"extended_keys">>
            /\ dispatched' = name
            /\ pending' = <<>>
            /\ (pending = <<"[", "1", "2", "2", ";", "6", "u">>)
                  => dispatched' = <<"ctrl", "_", "shift", "_", "z">>
            /\ (pending = <<"[", "9", "7", ";", "1", "u">>) => dispatched' = <<"a">>
            /\ (pending = <<"[", "6", "5", ";", "4", "u">>)
                  => dispatched' = <<"alt", "_", "shift", "_", "a">>
    ]_vars

C19_Witness ==
    /\ KeyEv({KEY_ESC}) /\ HandledBy = "extended_keys"
    /\ pending = <<>>
    /\ dispatched = <<"ctrl", "_", "alt", "_", "shift", "_", "z">>

\* C20: a sequence that is not exactly a bracket, a positive integer, a
\* semicolon, a positive integer and the letter u with a codepoint in range
\* is not decoded: no key name is produced or dispatched, the key is not
\* handled and the characters stay in the terminal.
C20_DecodeStrict ==
    [][(last'.ev = "key" /\ last'.key = KEY_ESC /\ ~WellFormed(pending)) =>
        /\ _parse_csi_u(pending) = None
        /\ Declined(last', "extended_keys")
        /\ dispatched' = dispatched
        /\ pending' = pending
    ]_vars

\* C21: the ESC handler loses no input. With nothing waiting it declines and
\* the stream stays empty; with characters waiting that do not decode it
\* declines, dispatches no name, and the stream holds the same characters in
\* the same order; only when they decode are they consumed, the name
\* dispatched and the ESC key reported handled.
C21_NoInputLost ==
    [][(last'.ev = "key" /\ last'.key = KEY_ESC) =>
        LET name == _parse_csi_u(pending)
            decoded == pending # <<>> /\ name # None
        IN  /\ last'.handled <=> decoded
            /\ (pending = <<>>) =>
                  /\ Declined(last', "extended_keys")
                  /\ pending' = <<>> /\ dispatched' = dispatched
            /\ (pending # <<>> /\ name = None) =>
                  /\ Declined(last', "extended_keys")
                  /\ dispatched' = dispatched
                  /\ Len(pending') = Len(pending)
                  /\ \A i \in 1..Len(pending) : pending'[i] = pending[i]
            /\ decoded =>
                  /\ last'.invoked = <<"extended_keys">>
                  /\ pending' = <<>>
                  /\ dispatched' = name
    ]_vars

C21_Witness ==
    /\ KeyEv({KEY_ESC}) /\ Declined(last, "extended_keys")
    /\ pending = <<"[", "a", "b", "c", ";", "1", "u">>
    /\ dispatched = None

\* C22: the editor never quits without the prompt having been shown while
\* some tab of the registry, active or not, is dirty.
C22_QuitPrompt ==
    (last.ev = "quit" /\ \E i \in 1..Len(tabs) : tabs[i].dirty)
        => \E j \in 1..Len(last.invoked) : last.invoked[j] = "_ask_quit"

\* C23: after every fully dispatched key event the blackboard entry
\* selection.anchor equals SelectionModel's own _anchor.
C23_AnchorPublished == (last.ev = "key") => Anchor = _anchor

\* C24: after every fully dispatched key event, an anchor held in the
\* blackboard is a position inside the current buffer: its row is below the
\* number of lines and its column is at most the length of that row's line.
C24_AnchorInBuffer == (last.ev = "key" /\ Anchor # None) => InBuffer(Anchor, lines)

\* ------------------------------------- selections across tab commands
\* The tab manager's keys together with the keys that make and extend a
\* selection and a printable key, from the start states of SpecTabs.
SwitchKeys == TAB_KEYS \cup _SHIFT_KEYS \cup {KEY_CHAR_A}

NextSwitch ==
    \/ OnInit
    \/ \E key \in SwitchKeys : KeyEvent(key)

SpecSwitch == InitTabs /\ [][NextSwitch]_vars

\* C25: after a previous-tab, next-tab or new-tab key event no selection is
\* active: SelectionModel is invoked before TabManager in that event and
\* declines, and after the event neither the blackboard nor SelectionModel
\* holds an anchor, whatever the anchor was before the event.
C25_TabKeyClears ==
    KeyEv(TAB_KEYS) =>
        /\ Anchor = None
        /\ _anchor = None
        /\ ~ActiveSelection
        /\ Declined(last, "selection")
        /\ \A j \in 1..Len(last.invoked) :
              last.invoked[j] = "tabs" =>
                  \E i \in 1..(j - 1) : last.invoked[i] = "selection"

\* A new-tab key pressed while a non-empty selection was active in the tab
\* that is left: the tab manager handled it and the selection is gone.
C25_Witness ==
    /\ KeyEv({KEY_NEW_TAB})
    /\ HandledBy = "tabs"
    /\ Len(tabs) = 2
    /\ current_tab = 1
    /\ last.anchor # None
    /\ last.anchor # tabs[1].cursor
    /\ Anchor = None

====
